---- MODULE Spec2Model ----
(***************************************************************************)
(* A model of dash/_validate.py: the registration-time validation of       *)
(* callback dependencies (validate_callback and its helpers), the          *)
(* return-shape check validate_multi_return and the layout check           *)
(* validate_layout.                                                        *)
(*                                                                         *)
(* Python strings are sequences of one-character strings, so that the      *)
(* character tests of the code ("." in arg_id, startswith) are computed.   *)
(***************************************************************************)
EXTENDS Naturals, Sequences, FiniteSets, TLC

VARIABLES
    used_outputs,   \* app.used_outputs: the Outputs registered so far, in order
    registered,     \* history: the output list of each successful registration
    suppress,       \* app.config.suppress_callback_exceptions
    layout,         \* the layout argument: << >> is None, <<c>> the root component c
    lock,           \* the registration lock: 0 when free, else the holding thread
    pc,             \* per thread: "idle", "waiting" or "critical"
    call,           \* the arguments of the call being served
    result          \* the outcome of the call: Pending, Ok or the exception raised

vars == <<used_outputs, registered, suppress, layout, lock, pc, call, result>>

----------------------------------------------------------------------------
(* Sequences and strings *)

\* `x in s` for a one-character x and a string s
CharIn(x, s) == \E i \in 1..Len(s) : s[i] = x

\* s.startswith(w)
StartsWith(s, w) == Len(w) <= Len(s) /\ SubSeq(s, 1, Len(w)) = w

\* The characters the model uses, in code-point order
CharOrder == <<"\"", ",", "-", ".", "0", "1", "2", ":", "A", "L", "M", "N", "R",
               "S", "Y", "[", "]", "a", "b", "d", "e", "f", "i", "l", "n", "p",
               "r", "s", "t", "u", "v", "x", "z", "{", "}">>

Ord(c) == CHOOSE i \in 1..Len(CharOrder) : CharOrder[i] = c

\* s < t for Python strings
RECURSIVE StrLess(_, _)
StrLess(s, t) ==
    IF t = << >> THEN FALSE
    ELSE IF s = << >> THEN TRUE
    ELSE IF Head(s) = Head(t) THEN StrLess(Tail(s), Tail(t))
    ELSE Ord(Head(s)) < Ord(Head(t))

----------------------------------------------------------------------------
(* Values of a dict id: scalars, the wildcard objects, and anything else *)

Wild(name) == [t |-> "wild", n |-> 0, s |-> name]
ANY == Wild(<<"A", "N", "Y">>)
ALL == Wild(<<"A", "L", "L">>)
ALLSMALLER == Wild(<<"A", "L", "L", "S", "M", "A", "L", "L", "E", "R">>)

StrV(s) == [t |-> "str", n |-> 0, s |-> s]
IntV(n) == [t |-> "int", n |-> n, s |-> << >>]
BoolV(b) == [t |-> "bool", n |-> IF b THEN 1 ELSE 0, s |-> << >>]
ListV == [t |-> "list", n |-> 0, s |-> << >>]
NoneV == [t |-> "none", n |-> 0, s |-> << >>]

IsWild(v) == v.t = "wild"
IsNumber(v) == v.t \in {"int", "bool"}

\* isinstance(v, _strings + (int, float, bool))
IsScalar(v) == v.t \in {"str", "int", "bool"}

\* Python's v == w: bool is an int (True == 1); wildcards compare by identity
PyEq(v, w) == IF IsNumber(v) /\ IsNumber(w) THEN v.n = w.n ELSE v = w

\* `v in wildcards` for a tuple of wildcard objects
InWildcards(v, wildcards) == \E w \in wildcards : PyEq(v, w)

\* One entry of a dict id: the key k, whether k is a str, and the value
Entry(k, v) == [k |-> k, kstr |-> TRUE, v |-> v]
NonStrKeyEntry(k, v) == [k |-> k, kstr |-> FALSE, v |-> v]

Keys(d) == {<<d[i].kstr, d[i].k>> : i \in 1..Len(d)}
HasKey(d, e) == \E i \in 1..Len(d) : d[i].kstr = e.kstr /\ d[i].k = e.k
Lookup(d, e) == d[CHOOSE i \in 1..Len(d) : d[i].kstr = e.kstr /\ d[i].k = e.k].v
\* d.get(k): the value at the key, None when the key is absent
Get(d, e) == IF HasKey(d, e) THEN Lookup(d, e) ELSE NoneV

----------------------------------------------------------------------------
(* Dependencies *)

Dep(cls, idk, sid, did, prop) ==
    [cls |-> cls, idk |-> idk, sid |-> sid, did |-> did,
     pstr |-> TRUE, prop |-> prop, event |-> FALSE]

OutputS(sid, prop) == Dep("Output", "str", sid, << >>, prop)
OutputD(did, prop) == Dep("Output", "dict", << >>, did, prop)
InputS(sid, prop) == Dep("Input", "str", sid, << >>, prop)
InputD(did, prop) == Dep("Input", "dict", << >>, did, prop)
StateS(sid, prop) == Dep("State", "str", sid, << >>, prop)
StateD(did, prop) == Dep("State", "dict", << >>, did, prop)

\* cls.allowed_wildcards
allowed_wildcards(cls) ==
    IF cls = "Output" THEN {ANY, ALL} ELSE {ANY, ALL, ALLSMALLER}

\* DashDependency._id_matches for one key: the two values can name one component
ValueOverlap(v, w) ==
    \/ PyEq(v, w)
    \/ IsWild(v) /\ ~IsWild(w)
    \/ ~IsWild(v) /\ IsWild(w)
    \/ IsWild(v) /\ IsWild(w) /\ (v = ALL \/ w = ALL)

\* DashDependency.__eq__: the same property of at least one common component
DepEq(a, b) ==
    /\ a.prop = b.prop
    /\ a.pstr = b.pstr
    /\ a.idk = b.idk
    /\ IF a.idk = "dict"
       THEN /\ Keys(a.did) = Keys(b.did)
            /\ \A i \in 1..Len(a.did) :
                   ValueOverlap(a.did[i].v, Lookup(b.did, a.did[i]))
       ELSE a.sid = b.sid

Quote(s) == <<"\"">> \o s \o <<"\"">>

Digit(n) == <<CharOrder[Ord("0") + n]>>

\* json.dumps of a scalar, to_json() of a wildcard
JsonValue(v) ==
    CASE v.t = "wild" -> <<"[">> \o Quote(v.s) \o <<"]">>
      [] v.t = "str" -> Quote(v.s)
      [] v.t = "int" -> Digit(v.n)
      [] v.t = "bool" -> IF v.n = 1 THEN <<"t", "r", "u", "e">>
                         ELSE <<"f", "a", "l", "s", "e">>
      [] OTHER -> <<"[", "]">>

\* The entries of a dict id in the order of their sorted keys
RECURSIVE SortedEntries(_)
SortedEntries(d) ==
    IF d = << >> THEN << >>
    ELSE LET m == CHOOSE i \in 1..Len(d) :
                      \A j \in 1..Len(d) : ~StrLess(d[j].k, d[i].k)
             rest == [j \in 1..(Len(d) - 1) |-> IF j < m THEN d[j] ELSE d[j + 1]]
         IN <<d[m]>> \o SortedEntries(rest)

RECURSIVE JoinEntries(_)
JoinEntries(d) ==
    IF d = << >> THEN << >>
    ELSE Quote(d[1].k) \o <<":">> \o JsonValue(d[1].v)
         \o (IF Len(d) > 1 THEN <<",">> ELSE << >>) \o JoinEntries(Tail(d))

\* json.dumps(id, sort_keys=True, separators=(",", ":")) of a dict id
JsonDict(d) == <<"{">> \o JoinEntries(SortedEntries(d)) \o <<"}">>

\* DashDependency.__str__: "<id>.<property>"
DepStr(a) ==
    (IF a.idk = "dict" THEN JsonDict(a.did) ELSE a.sid) \o <<".">> \o a.prop

----------------------------------------------------------------------------
(* Components and the layout tree *)

\* A Component: its id (None, a string or a dict of scalars), its
\* available_properties, its available_wildcard_properties and its children
Component(idk, sid, did, props, wprops, kids) ==
    [comp |-> TRUE, idk |-> idk, sid |-> sid, did |-> did,
     props |-> props, wprops |-> wprops, kids |-> kids]

\* A child that is no Component (a string or a number among the children)
Text == [comp |-> FALSE, idk |-> "none", sid |-> << >>, did |-> << >>,
         props |-> {}, wprops |-> {}, kids |-> << >>]

\* Component._traverse: every descendant, depth first, the root excluded
RECURSIVE TraverseKids(_)
TraverseKids(kids) ==
    IF kids = << >> THEN << >>
    ELSE <<Head(kids)>> \o TraverseKids(Head(kids).kids) \o TraverseKids(Tail(kids))

Traverse(c) == TraverseKids(c.kids)

\* `sid in c`: some component below c has the string id sid
InTree(sid, c) ==
    \E i \in 1..Len(Traverse(c)) :
        Traverse(c)[i].comp /\ Traverse(c)[i].idk = "str" /\ Traverse(c)[i].sid = sid

\* c[sid]: the first component below c with the string id sid
GetItem(c, sid) ==
    LET t == Traverse(c)
        hit(i) == t[i].comp /\ t[i].idk = "str" /\ t[i].sid = sid
    IN t[CHOOSE i \in 1..Len(t) : hit(i) /\ \A j \in 1..(i - 1) : ~hit(j)]

\* _utils.stringify_id: a dict id as sorted compact JSON, any other id as it is
stringify_id(c) ==
    CASE c.idk = "dict" -> JsonDict(c.did)
      [] c.idk = "str" -> c.sid
      [] OTHER -> << >>

----------------------------------------------------------------------------
(* Outcomes *)

Pending == [err |-> "pending", msg |-> "none"]
Ok == [err |-> "ok", msg |-> "none"]
Raise(err, msg) == [err |-> err, msg |-> msg]

\* The first exception of a sequence of steps run in order
FirstError(rs) ==
    IF \E i \in 1..Len(rs) : rs[i] # Ok
    THEN rs[CHOOSE i \in 1..Len(rs) : rs[i] # Ok /\ \A j \in 1..(i - 1) : rs[j] = Ok]
    ELSE Ok

----------------------------------------------------------------------------
(* validate_callback and its helpers *)

validate_prop_for_component(arg, component) ==
    IF /\ arg.prop \notin component.props
       /\ ~\E w \in component.wprops : StartsWith(arg.prop, w)
    THEN Raise("NonExistentPropException", "none")
    ELSE Ok

\* The inner function id_match of validate_id_dict
id_match(arg_id, wildcards, c) ==
    /\ c.idk = "dict"
    /\ \A i \in 1..Len(arg_id) :
           \/ /\ arg_id[i].kstr /\ InTree(arg_id[i].k, c)
              /\ InWildcards(arg_id[i].v, wildcards)
           \/ PyEq(arg_id[i].v, Get(c.did, arg_id[i]))

\* The candidates of validate_id_dict in the order it tries them
Candidates(root) == <<root>> \o Traverse(root)

\* The loop over arg_id.items() that closes validate_id_dict
EntryCheck(e, wildcards) ==
    IF ~(e.k # << >> /\ e.kstr)
    THEN Raise("IncorrectTypeException", "key")
    ELSE IF ~(InWildcards(e.v, wildcards) \/ IsScalar(e.v))
    THEN Raise("IncorrectTypeException", "value")
    ELSE Ok

validate_id_dict(arg, lay, validate_ids, wildcards) ==
    LET arg_id == arg.did
        cs == Candidates(lay[1])
        found == \E i \in 1..Len(cs) : id_match(arg_id, wildcards, cs[i])
        component == cs[CHOOSE i \in 1..Len(cs) :
                            /\ id_match(arg_id, wildcards, cs[i])
                            /\ \A j \in 1..(i - 1) : ~id_match(arg_id, wildcards, cs[j])]
        existence == IF validate_ids /\ found
                     THEN validate_prop_for_component(arg, component)
                     ELSE Ok
    IN FirstError(<<existence>>
                  \o [i \in 1..Len(arg_id) |-> EntryCheck(arg_id[i], wildcards)])

\* validate_id_string that forgets the root: only `arg_id not in layout`
validate_id_string_no_root(arg, lay, validate_ids) ==
    IF CharIn(".", arg.sid) \/ CharIn("{", arg.sid)
    THEN Raise("InvalidComponentIdError", "none")
    ELSE IF ~validate_ids THEN Ok
    ELSE IF ~InTree(arg.sid, lay[1])
    THEN Raise("NonExistentIdException", "none")
    ELSE validate_prop_for_component(arg, GetItem(lay[1], arg.sid))

\* validate_id_string that tests `layout is not None` in place of validate_ids
validate_id_string_any_layout(arg, lay, validate_ids) ==
    IF CharIn(".", arg.sid) \/ CharIn("{", arg.sid)
    THEN Raise("InvalidComponentIdError", "none")
    ELSE IF lay = << >> THEN Ok
    ELSE IF ~InTree(arg.sid, lay[1]) /\ ~(lay[1].idk = "str" /\ lay[1].sid = arg.sid)
    THEN Raise("NonExistentIdException", "none")
    ELSE validate_prop_for_component(
             arg, IF lay[1].idk = "str" /\ lay[1].sid = arg.sid
                  THEN lay[1] ELSE GetItem(lay[1], arg.sid))

validate_id_string(arg, lay, validate_ids) ==
    LET arg_id == arg.sid
        root == lay[1]
        has_top == root.idk = "str"
        is_top == has_top /\ root.sid = arg_id
    IN IF CharIn(".", arg_id) \/ CharIn("{", arg_id)
       THEN Raise("InvalidComponentIdError", "none")
       ELSE IF ~validate_ids THEN Ok
       ELSE IF ~InTree(arg_id, root) /\ ~is_top
       THEN Raise("NonExistentIdException", "none")
       ELSE validate_prop_for_component(
                arg, IF is_top THEN root ELSE GetItem(root, arg_id))

\* The body of the loop `for arg in args` of validate_callback_args
ArgCheck(arg, cls, lay, validate_ids) ==
    IF arg.cls # cls THEN Raise("IncorrectTypeException", "class")
    ELSE IF ~arg.pstr THEN Raise("IncorrectTypeException", "property")
    ELSE IF arg.event THEN Raise("NonExistentEventException", "none")
    ELSE IF arg.idk = "dict"
    THEN validate_id_dict(arg, lay, validate_ids, allowed_wildcards(cls))
    ELSE IF arg.idk = "str" THEN validate_id_string(arg, lay, validate_ids)
    ELSE Raise("IncorrectTypeException", "id")

validate_callback_args(args, cls, lay, validate_ids) ==
    IF ~args.islist THEN Raise("IncorrectTypeException", "sequence")
    ELSE FirstError([i \in 1..Len(args.items) |->
                        ArgCheck(args.items[i], cls, lay, validate_ids)])

\* EqualPairs comparing string representations in place of ==
EqualPairsByStr(outputs) ==
    {p \in (1..Len(outputs)) \X (1..Len(outputs)) :
        p[1] < p[2] /\ DepStr(outputs[p[1]]) = DepStr(outputs[p[2]])}

\* The first loop of prevent_duplicate_outputs: the first pair (i, j), i < j,
\* in scan order whose outputs compare equal
EqualPairs(outputs) ==
    {p \in (1..Len(outputs)) \X (1..Len(outputs)) :
        p[1] < p[2] /\ DepEq(outputs[p[1]], outputs[p[2]])}

\* FirstEqualPair taking the last equal pair of the scan instead
LastEqualPair(outputs) ==
    CHOOSE p \in EqualPairs(outputs) :
        \A q \in EqualPairs(outputs) :
            q[1] < p[1] \/ (p[1] = q[1] /\ q[2] <= p[2])

FirstEqualPair(outputs) ==
    CHOOSE p \in EqualPairs(outputs) :
        \A q \in EqualPairs(outputs) :
            p[1] < q[1] \/ (p[1] = q[1] /\ p[2] <= q[2])

\* Dups comparing string representations in place of ==
DupsByStr(used, outputs) ==
    {DepStr(used[j]) : j \in {j \in 1..Len(used) :
                                 \E i \in 1..Len(outputs) :
                                     DepStr(outputs[i]) = DepStr(used[j])}}

\* The second loop of prevent_duplicate_outputs: the set dups
Dups(used, outputs) ==
    {DepStr(used[j]) : j \in {j \in 1..Len(used) :
                                 \E i \in 1..Len(outputs) : DepEq(outputs[i], used[j])}}

prevent_duplicate_outputs(used, outputs) ==
    IF EqualPairs(outputs) # {}
    THEN LET p == FirstEqualPair(outputs)
         IN IF DepStr(outputs[p[1]]) = DepStr(outputs[p[2]])
            THEN Raise("DuplicateCallbackOutput", "same output used more than once")
            ELSE Raise("DuplicateCallbackOutput", "two outputs can match the same ID")
    ELSE LET dups == Dups(used, outputs)
         IN IF dups = {} THEN Ok
            ELSE IF \/ Len(outputs) > 1
                    \/ Cardinality(dups) > 1
                    \/ dups # {DepStr(outputs[1])}
            THEN Raise("DuplicateCallbackOutput", "one or more Output is already set")
            ELSE Raise("DuplicateCallbackOutput", "already assigned to a callback")

\* OverlapPairs comparing string representations in place of ==
OverlapPairsByStr(inputs, outputs) ==
    {p \in (1..Len(inputs)) \X (1..Len(outputs)) :
        DepStr(outputs[p[2]]) = DepStr(inputs[p[1]])}

\* The pairs (input, output) that compare equal
OverlapPairs(inputs, outputs) ==
    {p \in (1..Len(inputs)) \X (1..Len(outputs)) :
        DepEq(outputs[p[2]], inputs[p[1]])}

prevent_input_output_overlap(inputs, outputs) ==
    IF OverlapPairs(inputs, outputs) = {} THEN Ok
    ELSE LET p == CHOOSE p \in OverlapPairs(inputs, outputs) :
                      \A q \in OverlapPairs(inputs, outputs) :
                          p[1] < q[1] \/ (p[1] = q[1] /\ p[2] <= q[2])
         IN IF DepStr(outputs[p[2]]) = DepStr(inputs[p[1]])
            THEN Raise("SameInputOutputException", "same Output and Input")
            ELSE Raise("SameInputOutputException", "can match the same ID")

\* get_wildcard_keys counting every wildcard object, ALL included
get_wildcard_keys_any_wildcard(dep, wildcards) ==
    IF dep.idk # "dict" THEN {}
    ELSE {<<dep.did[i].kstr, dep.did[i].k>> :
              i \in {i \in 1..Len(dep.did) : IsWild(dep.did[i].v)}}

get_wildcard_keys(dep, wildcards) ==
    IF dep.idk # "dict" THEN {}
    ELSE {<<dep.did[i].kstr, dep.did[i].k>> :
              i \in {i \in 1..Len(dep.did) : InWildcards(dep.did[i].v, wildcards)}}

prevent_inconsistent_wildcards(outputs, inputs, state) ==
    IF outputs = << >> THEN Raise("IndexError", "none")
    ELSE LET any_keys == get_wildcard_keys(outputs[1], {ANY})
             deps == inputs \o state
         IN IF \E i \in 2..Len(outputs) :
                   get_wildcard_keys(outputs[i], {ANY}) # any_keys
            THEN Raise("InconsistentCallbackWildcards", "outputs")
            ELSE IF \E i \in 1..Len(deps) :
                        get_wildcard_keys(deps[i], {ANY, ALLSMALLER}) \ any_keys # {}
            THEN Raise("InconsistentCallbackWildcards", "inputs and state")
            ELSE Ok

\* An argument of validate_callback: a list (or tuple) of items, or one bare item
List(items) == [islist |-> TRUE, items |-> items]
Bare(item) == [islist |-> FALSE, items |-> <<item>>]

\* The three calls of validate_callback_args, in order
ArgsChecks(lay, output, inputs, state, validate_ids) ==
    FirstError(<<validate_callback_args(List(output.items), "Output", lay, validate_ids),
                 validate_callback_args(inputs, "Input", lay, validate_ids),
                 validate_callback_args(state, "State", lay, validate_ids)>>)

validate_callback(used, suppressed, lay, output, inputs, state) ==
    LET validate_ids == ~suppressed
        outputs == output.items
    IN IF lay = << >> /\ validate_ids
       THEN Raise("LayoutIsNotDefined", "none")
       ELSE IF inputs.islist /\ inputs.items = << >>
       THEN Raise("MissingInputsException", "none")
       ELSE IF ArgsChecks(lay, output, inputs, state, validate_ids) # Ok
       THEN ArgsChecks(lay, output, inputs, state, validate_ids)
       ELSE IF prevent_duplicate_outputs(used, outputs) # Ok
       THEN prevent_duplicate_outputs(used, outputs)
       ELSE IF prevent_input_output_overlap(inputs.items, outputs) # Ok
       THEN prevent_input_output_overlap(inputs.items, outputs)
       ELSE prevent_inconsistent_wildcards(outputs, inputs.items, state.items)

----------------------------------------------------------------------------
(* validate_multi_return *)

\* A Python value as far as validate_multi_return looks at it: its type
\* ("list", "tuple", or another type) and, for a sequence, its items
Value(type, items) == [type |-> type, items |-> items]
Leaf(type) == [type |-> type, items |-> << >>]

\* IsSequence accepting lists only
IsSequenceListOnly(v) == v.type = "list"

\* isinstance(v, (list, tuple))
IsSequence(v) == v.type \in {"list", "tuple"}

validate_multi_return(outputs_list, output_value) ==
    IF ~IsSequence(output_value)
    THEN Raise("InvalidCallbackReturnValue", "expected a list or tuple")
    ELSE IF Len(output_value.items) # Len(outputs_list.items)
    THEN Raise("InvalidCallbackReturnValue", "invalid number of output values")
    ELSE FirstError([i \in 1..Len(outputs_list.items) |->
             LET outi == outputs_list.items[i]
                 vi == output_value.items[i]
             IN IF outi.type # "list" THEN Ok
                ELSE IF ~IsSequence(vi)
                THEN Raise("InvalidCallbackReturnValue", "wildcard multi-output")
                ELSE IF Len(vi.items) # Len(outi.items)
                THEN Raise("InvalidCallbackReturnValue", "invalid number of output values")
                ELSE Ok])

----------------------------------------------------------------------------
(* validate_layout *)

\* The loop of validate_layout over the traversal, component_ids being the
\* ids met so far
RECURSIVE ScanIds(_, _)
ScanIds(components, component_ids) ==
    IF components = << >> THEN Ok
    ELSE LET component_id == stringify_id(Head(components))
         IN IF component_id # << >> /\ component_id \in component_ids
            THEN Raise("DuplicateIdError", "none")
            ELSE ScanIds(Tail(components), component_ids \cup {component_id})

\* validate_layout that starts from an empty set whatever the root's id
validate_layout_no_root(lay) ==
    IF lay = << >> THEN Raise("NoLayoutException", "none")
    ELSE ScanIds(Traverse(lay[1]), {})

validate_layout(lay) ==
    IF lay = << >> THEN Raise("NoLayoutException", "none")
    ELSE LET layout_id == stringify_id(lay[1])
         IN ScanIds(Traverse(lay[1]),
                    IF layout_id # << >> THEN {layout_id} ELSE {})

----------------------------------------------------------------------------
(* Bounds and the values the model draws its inputs from *)

MaxOutputs == 2      \* outputs of one callback
MaxDupOutputs == 3   \* outputs of one callback in the calls about duplicates
MaxInputs == 1       \* inputs of one callback
MaxState == 1        \* state dependencies of one callback
MaxRegistered == 3   \* registrations are attempted while the registry is no longer
MaxChildren == 2     \* children of the root of a generated layout
MaxReturn == 2       \* items of a returned sequence

SeqsUpTo(S, max) == UNION {[1..k -> S] : k \in 0..max}

id_a == <<"a">>
id_b == <<"b">>
id_r == <<"r">>
id_z == <<"z">>
id_a_dot_b == <<"a", ".", "b">>
id_brace_a == <<"{", "a">>
value == <<"v">>
nope == <<"n">>
data_x == <<"d", "-", "x">>
data_ == <<"d", "-">>
type == <<"t">>
index == <<"i">>
s_x == <<"x">>

\* Dict ids over the keys "t" and "i"
tx_i(val) == <<Entry(type, StrV(s_x)), Entry(index, val)>>
t_i(tval, ival) == <<Entry(index, ival), Entry(type, tval)>>

\* A component without children whose wildcard properties start with "d-"
Leafc(idk, sid, did, props) == Component(idk, sid, did, props, {data_}, << >>)

\* "r"[ "a", text, {t:x,i:1}[ "b" ] ]
Layout1 ==
    Component("str", id_r, << >>, {value}, {data_}, <<
        Leafc("str", id_a, << >>, {value}),
        Text,
        Component("dict", << >>, tx_i(IntV(1)), {value}, {},
                  <<Leafc("str", id_b, << >>, {value})>>)>>)

\* {t:x,i:1}[ "i", {t:x,i:2} ]: the root's id is a dict, and a component
\* below the root has a key of that dict as its string id
Layout2 ==
    Component("dict", << >>, tx_i(IntV(1)), {value}, {}, <<
        Leafc("str", index, << >>, {value}),
        Leafc("dict", << >>, tx_i(IntV(2)), {nope})>>)

\* (no id)[ "a.b", "a" without the property "v", {t:x,i:2} ]
Layout3 ==
    Component("none", << >>, << >>, {value}, {}, <<
        Leafc("str", id_a_dot_b, << >>, {value}),
        Leafc("str", id_a, << >>, {nope}),
        Leafc("dict", << >>, tx_i(IntV(2)), {value})>>)

Layouts == {<<Layout1>>, <<Layout2>>, <<Layout3>>}

\* A dependency with a legacy component_event attribute
WithEvent(d) == [d EXCEPT !.event = TRUE]
\* A dependency whose component_property is no string
WithBadProp(d) == [d EXCEPT !.pstr = FALSE]
\* A dependency whose component_id is neither a string nor a dict
WithBadId(d) == [d EXCEPT !.idk = "other"]

\* One call of validate_callback with the application state it runs in
Scenario(used, sup, lay, output, inputs, state) ==
    [used |-> used, suppress |-> sup, layout |-> lay,
     output |-> output, inputs |-> inputs, state |-> state]

Outputs(S) == {List(o) : o \in SeqsUpTo(S, MaxOutputs)} \cup {Bare(d) : d \in S}
Inputs(S) == {List(s) : s \in SeqsUpTo(S, MaxInputs)}
States(S) == {List(s) : s \in SeqsUpTo(S, MaxState)}

\* Calls about ids and properties: existing, missing and ill-formed ids
IdOutputs == {OutputS(id_a, value), OutputS(id_z, value), OutputS(id_a_dot_b, value)}
IdInputs == {InputS(id_r, data_x), InputS(id_z, value), InputS(id_brace_a, value)}
IdStates == {StateS(id_z, value), StateS(id_b, nope)}

IdScenarios(P(_)) ==
    \E sup \in BOOLEAN, lay \in Layouts \cup {<< >>},
       o \in Outputs(IdOutputs), inp \in Inputs(IdInputs), st \in States(IdStates) :
        P(Scenario(<< >>, sup, lay, o, inp, st))

\* Calls about the shape of the arguments
ShapeScenarios(P(_)) ==
    \E sup \in BOOLEAN,
       o \in {List(<<OutputS(id_a, value)>>), List(<<InputS(id_a, value)>>),
               List(<<OutputD(tx_i(ALLSMALLER), value)>>),
               List(<<OutputD(<<Entry(<< >>, ANY)>>, value)>>),
               List(<<OutputD(<<NonStrKeyEntry(<<"1">>, ANY)>>, value)>>),
               List(<<OutputD(tx_i(ListV), nope)>>),
               List(<<WithBadId(OutputS(id_a, value))>>)},
       inp \in {List(<<InputS(id_b, value)>>), Bare(InputS(id_b, value)),
                List(<<WithBadProp(InputS(id_b, value))>>),
                List(<<WithEvent(InputS(id_b, value))>>),
                List(<<InputS(id_z, value)>>)},
       st \in {List(<< >>), Bare(StateS(id_b, value)),
               List(<<StateD(tx_i(ListV), value)>>)} :
        P(Scenario(<< >>, sup, <<Layout1>>, o, inp, st))

\* Calls about duplicate outputs, against several registries
DupOutputs == {OutputS(id_a, value), OutputD(tx_i(ANY), value), OutputD(tx_i(ALL), value),
               OutputD(tx_i(IntV(1)), value), OutputD(tx_i(BoolV(TRUE)), value)}
DupInputs == {InputS(id_b, value), InputS(id_a, value)}
Registries == {<< >>, <<OutputS(id_a, value)>>,
               <<OutputD(tx_i(IntV(1)), value), OutputD(tx_i(IntV(2)), value)>>}

DupScenarios(P(_)) ==
    \E used \in Registries, sup \in BOOLEAN,
       o \in {List(o) : o \in SeqsUpTo(DupOutputs, MaxDupOutputs)}
              \cup {Bare(d) : d \in DupOutputs},
       inp \in Inputs(DupInputs) :
        P(Scenario(used, sup, <<Layout1>>, o, inp, List(<< >>)))

\* Calls about wildcards: input/output overlap and wildcard consistency
WildOutputs == {OutputD(t_i(ANY, ANY), value), OutputD(tx_i(ANY), data_x),
                OutputD(t_i(ALL, ANY), nope), OutputS(id_a, value)}
WildInputs == {InputD(tx_i(ANY), value), InputD(tx_i(ALLSMALLER), data_x),
               InputD(t_i(ANY, IntV(1)), value), InputD(t_i(ALL, ALL), value),
               InputS(id_a, value)}
WildStates == {StateD(t_i(ANY, ALLSMALLER), value), StateD(tx_i(ANY), data_x)}

WildScenarios(P(_)) ==
    \E o \in Outputs(WildOutputs), inp \in Inputs(WildInputs), st \in States(WildStates) :
        P(Scenario(<< >>, TRUE, <<Layout1>>, o, inp, st))

\* Calls about dict ids matched against the layout
MatchOutputs == {OutputD(tx_i(ANY), nope), OutputD(tx_i(IntV(2)), value),
                 OutputD(tx_i(BoolV(TRUE)), nope), OutputD(<<Entry(index, ALL)>>, nope)}
MatchInputs == {InputD(tx_i(ALLSMALLER), nope), InputD(tx_i(IntV(1)), data_x),
                InputD(<<Entry(type, StrV(s_x))>>, nope)}

MatchScenarios(P(_)) ==
    \E sup \in BOOLEAN, lay \in Layouts,
       o \in Outputs(MatchOutputs), inp \in Inputs(MatchInputs) :
        P(Scenario(<< >>, sup, lay, o, inp, List(<< >>)))

----------------------------------------------------------------------------
(* The validation of one callback: validate_callback applied to a call *)

\* Calls that break several checks at once
t_q(qval) == <<Entry(type, StrV(s_x)), Entry(<<"q">>, qval)>>
OrderOutputs == {OutputS(id_a, value), OutputS(id_z, value), OutputS(id_a, nope),
                 OutputD(t_q(NoneV), nope), OutputD(tx_i(ListV), nope)}
OrderInputs == {InputS(id_b, value), WithBadProp(InputS(id_b, value)),
                WithEvent(InputS(id_z, value)), InputD(t_q(NoneV), value)}
OrderStates == {StateS(id_b, value), WithBadId(StateS(id_b, value))}

OrderScenarios(P(_)) ==
    \E sup \in BOOLEAN, lay \in {<< >>, <<Layout1>>},
       o \in Outputs(OrderOutputs), inp \in Inputs(OrderInputs),
       st \in States(OrderStates) :
        P(Scenario(<< >>, sup, lay, o, inp, st))

NoThread == 0
Threads == {1, 2}
NoCall == [output |-> List(<< >>), inputs |-> List(<< >>), state |-> List(<< >>)]

\* The application and the pending call are those of the scenario s
Called(s) ==
    /\ used_outputs = s.used
    /\ registered = << >>
    /\ suppress = s.suppress
    /\ layout = s.layout
    /\ lock = NoThread
    /\ pc = [th \in Threads |-> "idle"]
    /\ call = [output |-> s.output, inputs |-> s.inputs, state |-> s.state]
    /\ result = Pending

InitValidate ==
    \/ IdScenarios(Called)
    \/ ShapeScenarios(Called)
    \/ DupScenarios(Called)
    \/ WildScenarios(Called)
    \/ MatchScenarios(Called)
    \/ OrderScenarios(Called)

Validate ==
    /\ result = Pending
    /\ result' = validate_callback(used_outputs, suppress, layout,
                                   call.output, call.inputs, call.state)
    /\ UNCHANGED <<used_outputs, registered, suppress, layout, lock, pc, call>>

SpecValidate == InitValidate /\ [][Validate]_vars

----------------------------------------------------------------------------
(* Registration: threads register callbacks under the application's lock.   *)
(* A registration is validate_callback followed, when it returns, by        *)
(* used_outputs.extend(outputs).                                            *)

RegOutputs == {OutputS(id_a, value), OutputD(tx_i(ALL), value),
               OutputD(tx_i(IntV(1)), value)}
RegInputs == {List(<<InputS(id_b, value)>>), List(<<InputS(id_a, value)>>),
              List(<<InputS(id_z, value)>>)}

RegCalls ==
    {[output |-> o, inputs |-> inp, state |-> List(<< >>)] :
        o \in Outputs(RegOutputs), inp \in RegInputs}

Init ==
    /\ used_outputs = << >>
    /\ registered = << >>
    /\ suppress = FALSE
    /\ layout = <<Layout1>>
    /\ lock = NoThread
    /\ pc = [th \in Threads |-> "idle"]
    /\ call = NoCall
    /\ result = Pending

\* A thread calls app.callback(...) and waits for the lock
Request(th) ==
    /\ pc[th] = "idle"
    /\ Len(used_outputs) <= MaxRegistered
    /\ pc' = [pc EXCEPT ![th] = "waiting"]
    /\ UNCHANGED <<used_outputs, registered, suppress, layout, lock, call, result>>

\* The thread takes the lock; its arguments are read from here on
Acquire(th) ==
    /\ pc[th] = "waiting"
    /\ lock = NoThread
    /\ \E c \in RegCalls : call' = c
    /\ lock' = th
    /\ pc' = [pc EXCEPT ![th] = "critical"]
    /\ result' = Pending
    /\ UNCHANGED <<used_outputs, registered, suppress, layout>>

\* used_outputs.extend(output if is_multi else [output])
Extend(used, output) == used \o output.items

\* validate_callback, the append on success, and the release of the lock
Register(th) ==
    /\ pc[th] = "critical"
    /\ lock = th
    /\ LET res == validate_callback(used_outputs, suppress, layout,
                                    call.output, call.inputs, call.state)
       IN /\ result' = res
          /\ IF res = Ok
             THEN /\ used_outputs' = Extend(used_outputs, call.output)
                  /\ registered' = Append(registered, call.output)
             ELSE UNCHANGED <<used_outputs, registered>>
    /\ lock' = NoThread
    /\ pc' = [pc EXCEPT ![th] = "idle"]
    /\ UNCHANGED <<suppress, layout, call>>

Next == \E th \in Threads : Request(th) \/ Acquire(th) \/ Register(th)

Spec == Init /\ [][Next]_vars

----------------------------------------------------------------------------
(* validate_layout applied to a layout *)

\* An id of a component: None, "", "a", {t:x}, or the string '{"t":"x"}'
NoId == [idk |-> "none", sid |-> << >>, did |-> << >>]
StrId(sid) == [idk |-> "str", sid |-> sid, did |-> << >>]
DictId(did) == [idk |-> "dict", sid |-> << >>, did |-> did]

IdChoices == {NoId, StrId(<< >>), StrId(id_a), DictId(<<Entry(type, StrV(s_x))>>),
              StrId(<<"{", "\"", "t", "\"", ":", "\"", "x", "\"", "}">>)}

Node(id, kids) == Component(id.idk, id.sid, id.did, {value}, {}, kids)

ChildChoices ==
    {Text} \cup {Node(id, << >>) : id \in IdChoices}
    \cup {Node(NoId, <<Node(StrId(id_a), << >>)>>),
          Node(StrId(id_a), <<Text, Node(DictId(<<Entry(type, StrV(s_x))>>), << >>)>>)}

InitLayout ==
    /\ used_outputs = << >>
    /\ registered = << >>
    /\ suppress = FALSE
    /\ \/ layout = << >>
       \/ \E id \in IdChoices, kids \in SeqsUpTo(ChildChoices, MaxChildren) :
              layout = <<Node(id, kids)>>
    /\ lock = NoThread
    /\ pc = [th \in Threads |-> "idle"]
    /\ call = NoCall
    /\ result = Pending

ValidateLayout ==
    /\ result = Pending
    /\ result' = validate_layout(layout)
    /\ UNCHANGED <<used_outputs, registered, suppress, layout, lock, pc, call>>

SpecLayout == InitLayout /\ [][ValidateLayout]_vars

----------------------------------------------------------------------------
(* validate_multi_return applied to a declared shape and a returned value *)

Single == Leaf("dict")
Group(k) == Value("list", [j \in 1..k |-> Single])

\* The items of outputs_list: one output, a grouped output, or a tuple
DeclaredChoices == {Single, Group(1), Group(2), Value("tuple", <<Single, Single>>)}

\* The items of a returned sequence
ReturnedChoices == {Leaf("int"), Value("list", <<Leaf("int")>>),
                    Value("list", <<Leaf("int"), Leaf("str")>>),
                    Value("tuple", <<Leaf("int"), Leaf("int")>>),
                    Value("tuple", <<Leaf("str")>>)}

InitReturn ==
    /\ used_outputs = << >>
    /\ registered = << >>
    /\ suppress = FALSE
    /\ layout = << >>
    /\ lock = NoThread
    /\ pc = [th \in Threads |-> "idle"]
    /\ \E decl \in SeqsUpTo(DeclaredChoices, MaxOutputs) :
          \E ret \in {Leaf("int"), Leaf("dict"), Leaf("NoneType")}
                     \cup {Value(ty, items) : ty \in {"list", "tuple"},
                                              items \in SeqsUpTo(ReturnedChoices, MaxReturn)} :
              call = [outputs_list |-> Value("list", decl), output_value |-> ret]
    /\ result = Pending

ValidateMultiReturn ==
    /\ result = Pending
    /\ result' = validate_multi_return(call.outputs_list, call.output_value)
    /\ UNCHANGED <<used_outputs, registered, suppress, layout, lock, pc, call>>

SpecReturn == InitReturn /\ [][ValidateMultiReturn]_vars

----------------------------------------------------------------------------
(* Claims about registration *)

\* Steps 1 to 3 of validate_callback pass: the layout is there or ids are not
\* validated, there are inputs, and every argument passes validate_callback_args
EarlierChecksPass(used, sup, lay, c) ==
    /\ ~(lay = << >> /\ ~sup)
    /\ ~(c.inputs.islist /\ c.inputs.items = << >>)
    /\ ArgsChecks(lay, c.output, c.inputs, c.state, ~sup) = Ok

\* Some declared output compares equal to some registered output
MeetsRegistry(used, output) ==
    \E k \in 1..Len(output.items), j \in 1..Len(used) : DepEq(output.items[k], used[j])

\* The registry and the history as the call that just returned found them
PriorUsed ==
    IF result = Ok
    THEN SubSeq(used_outputs, 1, Len(used_outputs) - Len(call.output.items))
    ELSE used_outputs
PriorRegistered ==
    IF result = Ok THEN SubSeq(registered, 1, Len(registered) - 1) ELSE registered

\* C1: after any sequence of successful registrations, validate_callback
\* called with the outputs of an already registered callback, the same layout
\* and a non-empty valid inputs list fails with DuplicateCallbackOutput; and it
\* fails with DuplicateCallbackOutput whenever a declared output compares equal
\* to an entry of used_outputs and the earlier checks pass.
C1_RegisteredOutputsAreRejected ==
    result # Pending =>
        /\ (/\ \E k \in 1..Len(PriorRegistered) : PriorRegistered[k] = call.output
            /\ validate_callback_args(call.inputs, "Input", layout, ~suppress) = Ok)
           => result.err = "DuplicateCallbackOutput"
        /\ (/\ EarlierChecksPass(PriorUsed, suppress, layout, call)
            /\ MeetsRegistry(PriorUsed, call.output))
           => result.err = "DuplicateCallbackOutput"

\* The outputs of a registered callback were validated again, with an input
\* that equals one of them, and rejected as already assigned
C1_Witness ==
    /\ result.err = "DuplicateCallbackOutput"
    /\ \E k \in 1..Len(registered) : registered[k] = call.output
    /\ Len(registered) >= 2
    /\ call.inputs = List(<<InputS(id_a, value)>>)
    /\ call.output = Bare(OutputS(id_a, value))
    /\ result.msg = "already assigned to a callback"

\* C2: with validation and append atomic under the lock, no two distinct
\* entries of the registry compare equal, in any state any interleaving of the
\* threads reaches.
C2_RegistryHasNoEqualEntries ==
    \A j1 \in 1..Len(used_outputs), j2 \in 1..Len(used_outputs) :
        j1 # j2 => ~DepEq(used_outputs[j1], used_outputs[j2])

\* Two registrations went through, one thread is in its critical section
\* while the other waits for the lock
C2_Witness ==
    /\ Len(registered) >= 2
    /\ \E th \in Threads : pc[th] = "critical" /\ lock = th
    /\ \E th \in Threads : pc[th] = "waiting"

----------------------------------------------------------------------------
(* Claims about the existence checks *)

\* The dependencies of the served call in the order validate_callback checks
\* them, each with the class its list expects
Checked ==
    [k \in 1..Len(call.output.items) |-> [dep |-> call.output.items[k], cls |-> "Output"]]
    \o [k \in 1..Len(call.inputs.items) |-> [dep |-> call.inputs.items[k], cls |-> "Input"]]
    \o [k \in 1..Len(call.state.items) |-> [dep |-> call.state.items[k], cls |-> "State"]]

\* inputs and state are lists, and inputs is not empty
ListsGiven ==
    call.inputs.islist /\ call.state.islist /\ call.inputs.items # << >>

\* d has a string id that is neither a key of the layout nor the root's id
MissingId(d) ==
    /\ d.idk = "str"
    /\ ~InTree(d.sid, layout[1])
    /\ ~(layout[1].idk = "str" /\ layout[1].sid = d.sid)

\* c.dep is of the class its list expects, has a string property and no event
\* attribute, and its string id holds neither "." nor "{"
WellFormedStringDep(c) ==
    /\ c.dep.cls = c.cls /\ c.dep.pstr /\ ~c.dep.event
    /\ c.dep.idk = "str"
    /\ ~CharIn(".", c.dep.sid) /\ ~CharIn("{", c.dep.sid)

ExistenceErrors ==
    {"IncorrectTypeException", "NonExistentEventException", "InvalidComponentIdError",
     "NonExistentIdException", "NonExistentPropException"}

\* C3 as stated: with id-validation enabled, a layout and non-empty inputs, a
\* string id that is neither in the layout nor the root's id makes
\* validate_callback fail with NonExistentId; with id-validation suppressed
\* it does not fail with NonExistentId.
C3_AsStated ==
    result # Pending =>
        /\ (/\ ~suppress /\ layout # << >> /\ ListsGiven
            /\ \E k \in 1..Len(Checked) : MissingId(Checked[k].dep))
           => result.err = "NonExistentIdException"
        /\ suppress => result.err # "NonExistentIdException"

\* C3, amended: such a registration always fails in the argument checks; it
\* fails with NonExistentId when the first dependency with such an id, in the
\* order outputs, inputs, state, is well formed and every dependency before it
\* passes its own checks; NonExistentId is raised for no other reason, and
\* never when id-validation is suppressed.
C3_MissingIdIsReportedInOrder ==
    result # Pending =>
        /\ (/\ ~suppress /\ layout # << >> /\ ListsGiven
            /\ \E k \in 1..Len(Checked) : MissingId(Checked[k].dep))
           => /\ result.err \in ExistenceErrors
              /\ LET k == CHOOSE k \in 1..Len(Checked) :
                              /\ MissingId(Checked[k].dep)
                              /\ \A j \in 1..(k - 1) : ~MissingId(Checked[j].dep)
                 IN (/\ WellFormedStringDep(Checked[k])
                     /\ \A j \in 1..(k - 1) :
                            ArgCheck(Checked[j].dep, Checked[j].cls, layout, TRUE) = Ok)
                    => result.err = "NonExistentIdException"
        /\ result.err = "NonExistentIdException"
           => /\ ~suppress /\ layout # << >>
              /\ \E k \in 1..Len(Checked) :
                     MissingId(Checked[k].dep) /\ WellFormedStringDep(Checked[k])
        /\ suppress => result.err # "NonExistentIdException"

\* The missing id is that of a state dependency, checked after an output and
\* an input that pass, and it is reported
C3_Witness ==
    /\ result.err = "NonExistentIdException"
    /\ ~suppress
    /\ call.output.items # << >> /\ call.inputs.items # << >>
    /\ \E k \in 1..Len(call.state.items) : MissingId(call.state.items[k])
    /\ \A k \in 1..Len(call.output.items) : ~MissingId(call.output.items[k])
    /\ \A k \in 1..Len(call.inputs.items) : ~MissingId(call.inputs.items[k])

IdValidationErrors ==
    {"LayoutIsNotDefined", "InvalidComponentIdError", "NonExistentIdException",
     "NonExistentPropException"}

\* C4 as stated: with id-validation suppressed validate_callback fails with
\* none of LayoutUndefined, InvalidComponentId, NonExistentId, NonExistentProp.
C4_AsStated ==
    (result # Pending /\ suppress) => result.err \notin IdValidationErrors

\* C4, amended: with id-validation suppressed validate_callback fails with none
\* of LayoutUndefined, NonExistentId, NonExistentProp, whatever the layout;
\* a string id holding "." or "{" is still rejected with InvalidComponentId
\* (here: when it is the id of the first output, the first one checked).
C4_SuppressionSkipsExistenceChecksOnly ==
    (result # Pending /\ suppress) =>
        /\ result.err \notin (IdValidationErrors \ {"InvalidComponentIdError"})
        /\ (/\ call.inputs.items # << >>
            /\ call.output.items # << >>
            /\ LET d == call.output.items[1]
               IN /\ d.cls = "Output" /\ d.pstr /\ ~d.event /\ d.idk = "str"
                  /\ (CharIn(".", d.sid) \/ CharIn("{", d.sid)))
           => result.err = "InvalidComponentIdError"

\* Suppressed, without a layout, a call naming an id that is nowhere returns
C4_Witness ==
    /\ suppress /\ layout = << >> /\ result = Ok
    /\ \E k \in 1..Len(call.output.items) : call.output.items[k].sid = id_z

----------------------------------------------------------------------------
(* Claims about duplicate outputs and input/output overlap *)

\* The pairs of positions of the declared outputs that compare equal
EqualOutputs ==
    {p \in (1..Len(call.output.items)) \X (1..Len(call.output.items)) :
        p[1] < p[2] /\ DepEq(call.output.items[p[1]], call.output.items[p[2]])}

SameStr(p) == DepStr(call.output.items[p[1]]) = DepStr(call.output.items[p[2]])

\* The two outputs are equal through a wildcard: at some key their values differ
ThroughWildcard(p) ==
    LET o1 == call.output.items[p[1]]
        o2 == call.output.items[p[2]]
    IN /\ o1.idk = "dict"
       /\ \E k \in 1..Len(o1.did) : ~PyEq(o1.did[k].v, Lookup(o2.did, o1.did[k]))

\* C5 as stated, for a registration that reaches the duplicate check: if any
\* two outputs at different positions compare equal, validate_callback fails
\* with DuplicateCallbackOutput, with the "same output" message exactly when
\* the two outputs have the same string and the "two outputs can match"
\* message when they are equal through a wildcard.
C5_AsStated ==
    (result # Pending /\ EarlierChecksPass(used_outputs, suppress, layout, call)) =>
        \A p \in EqualOutputs :
            /\ result.err = "DuplicateCallbackOutput"
            /\ result.msg = "same output used more than once" <=> SameStr(p)
            /\ ThroughWildcard(p) => result.msg = "two outputs can match the same ID"

\* C5, amended: for a registration that reaches the duplicate check, if any
\* two outputs at different positions compare equal, validate_callback fails
\* with DuplicateCallbackOutput whatever used_outputs holds; the message is
\* decided by the first equal pair of the scan (first output ascending, then
\* second): "same output" exactly when that pair has one string, "two outputs
\* can match" otherwise, as when the pair is equal through a wildcard.
C5_DuplicateOutputsAreRejected ==
    (/\ result # Pending
     /\ EarlierChecksPass(used_outputs, suppress, layout, call)
     /\ EqualOutputs # {}) =>
        LET p == CHOOSE p \in EqualOutputs :
                     \A q \in EqualOutputs : p[1] < q[1] \/ (p[1] = q[1] /\ p[2] <= q[2])
        IN /\ result.err = "DuplicateCallbackOutput"
           /\ result.msg \in {"same output used more than once",
                              "two outputs can match the same ID"}
           /\ result.msg = "same output used more than once" <=> SameStr(p)
           /\ ThroughWildcard(p) => result.msg = "two outputs can match the same ID"

\* Three outputs, against a registry that is not empty: the first and second
\* overlap through a wildcard, the first and third are the same output, and
\* the message is that of the first pair
C5_Witness ==
    /\ result = Raise("DuplicateCallbackOutput", "two outputs can match the same ID")
    /\ used_outputs # << >>
    /\ Len(call.output.items) = 3
    /\ <<1, 2>> \in EqualOutputs /\ ~SameStr(<<1, 2>>)
    /\ <<1, 3>> \in EqualOutputs /\ SameStr(<<1, 3>>)


\* No two declared outputs compare equal and none equals a registered output
NoDuplicateOutputs ==
    /\ EqualOutputs = {}
    /\ ~MeetsRegistry(used_outputs, call.output)

\* Some dependency of the list deps compares equal to some declared output
EqualsAnOutput(deps) ==
    \E k \in 1..Len(deps), j \in 1..Len(call.output.items) :
        DepEq(call.output.items[j], deps[k])

\* C6: for a registration whose argument checks and duplicate-output checks
\* pass, validate_callback fails with SameInputOutput if and only if some Input
\* compares equal to some Output; a State equal to an Output never causes it.
C6_InputOutputOverlap ==
    (/\ result # Pending
     /\ EarlierChecksPass(used_outputs, suppress, layout, call)
     /\ NoDuplicateOutputs) =>
        /\ result.err = "SameInputOutputException" <=> EqualsAnOutput(call.inputs.items)
        /\ (EqualsAnOutput(call.state.items) /\ ~EqualsAnOutput(call.inputs.items))
           => result.err # "SameInputOutputException"

\* A State equals an Output, no Input does, and the registration is accepted
C6_Witness ==
    /\ result = Ok
    /\ EqualsAnOutput(call.state.items)
    /\ ~EqualsAnOutput(call.inputs.items)
    /\ call.inputs.items # << >>

----------------------------------------------------------------------------
(* Claims about wildcard consistency *)

\* The keys of d's dict id whose value is one of the wildcards ws
KeysHolding(d, ws) ==
    IF d.idk = "dict"
    THEN {d.did[k].k : k \in {k \in 1..Len(d.did) : d.did[k].v \in ws}}
    ELSE {}

\* The condition of C7 on the served call
WildcardsConsistent ==
    LET anyKeys == KeysHolding(call.output.items[1], {ANY})
    IN /\ \A k \in 2..Len(call.output.items) :
              KeysHolding(call.output.items[k], {ANY}) = anyKeys
       /\ \A k \in 1..Len(call.inputs.items) :
              KeysHolding(call.inputs.items[k], {ANY, ALLSMALLER}) \subseteq anyKeys
       /\ \A k \in 1..Len(call.state.items) :
              KeysHolding(call.state.items[k], {ANY, ALLSMALLER}) \subseteq anyKeys

\* C7: with anyKeys the keys of the first output's dict id that hold ANY, the
\* wildcard-consistency step succeeds if and only if every other output has
\* the same ANY keys and the ANY and ALLSMALLER keys of every Input and State
\* are among anyKeys; otherwise it fails with InconsistentCallbackWildcards.
\* Keys holding ALL do not count.
C7_WildcardConsistency ==
    (/\ result # Pending
     /\ EarlierChecksPass(used_outputs, suppress, layout, call)
     /\ call.output.items # << >>) =>
        /\ LET step == prevent_inconsistent_wildcards(
                           call.output.items, call.inputs.items, call.state.items)
           IN /\ step = Ok <=> WildcardsConsistent
              /\ step # Ok => step.err = "InconsistentCallbackWildcards"
        /\ (NoDuplicateOutputs /\ ~EqualsAnOutput(call.inputs.items))
           => /\ result = Ok <=> WildcardsConsistent
              /\ result # Ok => result.err = "InconsistentCallbackWildcards"

\* Two outputs with the same ANY key, one of them with ALL at another key, and
\* an input with ALL at both keys: the registration is accepted
C7_Witness ==
    /\ result = Ok
    /\ Len(call.output.items) = 2
    /\ KeysHolding(call.output.items[1], {ANY}) # {}
    /\ KeysHolding(call.output.items[1], {ALL})
           # KeysHolding(call.output.items[2], {ALL})
    /\ \E k \in 1..Len(call.inputs.items) :
           KeysHolding(call.inputs.items[k], {ALL}) # {}


----------------------------------------------------------------------------
(* Claims about the shape of a returned value *)

ListOrTuple(v) == v.type = "list" \/ v.type = "tuple"

\* The returned value has the declared shape
ShapeFits ==
    /\ ListOrTuple(call.output_value)
    /\ Len(call.output_value.items) = Len(call.outputs_list.items)
    /\ \A k \in 1..Len(call.outputs_list.items) :
           call.outputs_list.items[k].type = "list" =>
               /\ ListOrTuple(call.output_value.items[k])
               /\ Len(call.output_value.items[k].items)
                      = Len(call.outputs_list.items[k].items)

\* C8: validate_multi_return returns normally if and only if output_value is a
\* list or tuple as long as outputs_list and, at every position where
\* outputs_list holds a grouped (list) output, the returned item is a list or
\* tuple as long as that group; in every other case it fails with
\* InvalidCallbackReturnValue.
C8_MultiReturnShape ==
    result # Pending =>
        /\ result = Ok <=> ShapeFits
        /\ result # Ok => result.err = "InvalidCallbackReturnValue"

\* A group of two answered by a sequence of two, next to a declared tuple
\* answered by a value that is no sequence: the return value is accepted
C8_Witness ==
    /\ result = Ok
    /\ \E k \in 1..Len(call.outputs_list.items) :
           /\ call.outputs_list.items[k].type = "list"
           /\ Len(call.output_value.items[k].items) = 2
           /\ call.output_value.items[k].type = "tuple"
    /\ \E k \in 1..Len(call.outputs_list.items) :
           /\ call.outputs_list.items[k].type = "tuple"
           /\ ~ListOrTuple(call.output_value.items[k])

----------------------------------------------------------------------------
(* Claims about the ids of a layout *)

\* The root followed by every component of the traversal
WholeTree == <<layout[1]>> \o Traverse(layout[1])

\* Some non-empty stringified id occurs at two places of the tree
RepeatedId ==
    \E k \in 1..Len(WholeTree), j \in 1..Len(WholeTree) :
        /\ k < j
        /\ stringify_id(WholeTree[k]) # << >>
        /\ stringify_id(WholeTree[k]) = stringify_id(WholeTree[j])

\* C9: validate_layout fails with DuplicateIdError if and only if some
\* non-empty stringified component id occurs more than once among the root and
\* the components of the full traversal; components without an id never cause
\* the error, and an absent layout fails with NoLayout instead.
C9_DuplicateIds ==
    result # Pending =>
        IF layout = << >> THEN result.err = "NoLayoutException"
        ELSE /\ result.err = "DuplicateIdError" <=> RepeatedId
             /\ ~RepeatedId => result = Ok

\* A descendant repeats the root's id while the descendants' ids differ from
\* one another, and the layout is refused
C9_Witness ==
    /\ result.err = "DuplicateIdError"
    /\ layout # << >>
    /\ stringify_id(layout[1]) # << >>
    /\ \E k \in 1..Len(Traverse(layout[1])) :
           stringify_id(Traverse(layout[1])[k]) = stringify_id(layout[1])
    /\ \A k \in 1..Len(Traverse(layout[1])), j \in 1..Len(Traverse(layout[1])) :
           (k # j /\ stringify_id(Traverse(layout[1])[k]) # << >>)
           => stringify_id(Traverse(layout[1])[k]) # stringify_id(Traverse(layout[1])[j])

----------------------------------------------------------------------------
(* Claims about matching a dict id against the layout *)

\* The match as the claim words it: the component's own id is a dict and every
\* pair of the pattern is a wildcard at a key of that id, or the id's value
MatchesById(d, cls, c) ==
    /\ c.idk = "dict"
    /\ \A k \in 1..Len(d.did) :
           \/ /\ d.did[k].v \in allowed_wildcards(cls)
              /\ HasKey(c.did, d.did[k])
           \/ /\ HasKey(c.did, d.did[k])
              /\ PyEq(d.did[k].v, Lookup(c.did, d.did[k]))

\* What the claim expects of the existence check of d: the property check of
\* the first matching component of the tree, nothing when none matches
ExpectedExistence(d, cls) ==
    LET hits == {k \in 1..Len(WholeTree) : MatchesById(d, cls, WholeTree[k])}
    IN IF hits = {} THEN Ok
       ELSE validate_prop_for_component(
                d, WholeTree[CHOOSE k \in hits : \A j \in hits : k <= j])

\* C10: with id validation enabled, a dependency with a dict id is checked for
\* its property against the first component, root first and then depth first,
\* whose own dict id has every key of the pattern with an allowed wildcard or
\* an equal value there; when no component matches, no existence error is
\* raised.
C10_AsStated ==
    (result # Pending /\ layout # << >> /\ ~suppress) =>
        \A k \in 1..Len(Checked) :
            Checked[k].dep.idk = "dict" =>
                (validate_id_dict(Checked[k].dep, layout, TRUE,
                                  allowed_wildcards(Checked[k].cls)).err
                     = "NonExistentPropException")
                <=> (ExpectedExistence(Checked[k].dep, Checked[k].cls) # Ok)

----------------------------------------------------------------------------
(* Claims about the order of the checks *)

\* Step 1 is violated: no layout while ids are validated, or no inputs
PreconditionError ==
    \/ layout = << >> /\ ~suppress
    \/ call.inputs.islist /\ call.inputs.items = << >>

\* The pair e of a dict id is malformed for a dependency of class cls
MalformedEntry(e, cls) ==
    \/ ~e.kstr
    \/ e.k = << >>
    \/ e.v \notin allowed_wildcards(cls) /\ e.v.t \notin {"str", "int", "bool"}

\* Step 2 is violated by c: wrong class, property that is no string, event
\* attribute, id that is neither string nor dict, or malformed dict id
ShapeError(c) ==
    \/ c.dep.cls # c.cls
    \/ ~c.dep.pstr
    \/ c.dep.event
    \/ c.dep.idk \notin {"str", "dict"}
    \/ /\ c.dep.idk = "dict"
       /\ \E k \in 1..Len(c.dep.did) : MalformedEntry(c.dep.did[k], c.cls)

\* Step 2 is violated somewhere in the call
SomeShapeError ==
    \/ ~call.inputs.islist
    \/ ~call.state.islist
    \/ \E k \in 1..Len(Checked) : ShapeError(Checked[k])

\* C11: validate_callback raises only the error of the lowest-numbered violated
\* step: 1 preconditions (LayoutUndefined, then MissingInputs), 2 shape checks
\* of all dependencies (IncorrectType, NonExistentEvent), 3 id and property
\* existence, 4 duplicate outputs, 5 input/output overlap, 6 wildcard
\* consistency. So a malformed dict id is never reported as NonExistentProp,
\* and a shape error in inputs or state comes before an existence error in
\* an output.
C11_AsStated ==
    result # Pending =>
        /\ PreconditionError =>
               result.err = IF layout = << >> /\ ~suppress
                            THEN "LayoutIsNotDefined" ELSE "MissingInputsException"
        /\ (~PreconditionError /\ SomeShapeError) =>
               result.err \in {"IncorrectTypeException", "NonExistentEventException"}
        /\ (~PreconditionError /\ ~SomeShapeError
            /\ ArgsChecks(layout, call.output, call.inputs, call.state, ~suppress) # Ok) =>
               result.err \in {"InvalidComponentIdError", "NonExistentIdException",
                               "NonExistentPropException"}
        /\ (EarlierChecksPass(used_outputs, suppress, layout, call)
            /\ ~NoDuplicateOutputs) => result.err = "DuplicateCallbackOutput"
        /\ (EarlierChecksPass(used_outputs, suppress, layout, call)
            /\ NoDuplicateOutputs /\ EqualsAnOutput(call.inputs.items)) =>
               result.err = "SameInputOutputException"

====
